---- MODULE Spec2Model ----
(***************************************************************************)
(* Model of src/app.py: the Flask document summarizer.                     *)
(*                                                                         *)
(*   - split_text (greedy word wrap)              specification SpecWrap   *)
(*   - the two pagination loops (drawString/showPage)  specification SpecPage *)
(*   - requires_auth, upload_file, download_summary, index, run by         *)
(*     concurrent request threads                 specifications Spec, SpecGate *)
(***************************************************************************)
EXTENDS Integers, Sequences, FiniteSets, TLC

VARIABLES
    \* ---- split_text, one call (src/app.py:70-82)
    text,         \* argument text, a sequence of one-character strings
    max_length,   \* argument max_length
    words,        \* text.split()
    wi,           \* number of words the for loop has consumed
    lines,        \* local lines
    line,         \* local line
    wpc,          \* "off" | "loop" | "returned"
    \* ---- one pagination loop (src/app.py:88-99 or 180-187)
    loop,         \* "off" | "docx" | "summary": which of the two loops runs
    y,            \* the cursor y
    page,         \* index of the page the canvas is on (showPage count + 1)
    drawn,        \* number of drawString calls made so far
    lastY,        \* y passed to the most recent drawString
    paras,        \* paragraphs of doc.paragraphs consumed so far
    inPara,       \* lines drawn of the paragraph being rendered
    ppc,          \* "off" | "loop" | "saved"
    \* ---- request handling (src/app.py:49-56, 115-197)
    req,          \* req[r]: the request thread r serves
    pc,           \* pc[r]: position of thread r in its handler
    loc,          \* loc[r]: locals of upload_file in thread r
    resp,         \* resp[r]: the response of thread r
    trace,        \* trace[r]: stages thread r invoked, in order, with outcome
    expired,      \* expired[r]: the SAS locator of r's blob is past its expiry
    uploads,      \* files of UPLOAD_FOLDER: path -> content
    blobs,        \* blobs of the container: name -> content
    summary_txt,  \* content of summaries/summary.txt
    summary_pdf,  \* content of summaries/summary.pdf
    last_done,    \* the thread that returned its response most recently (0: none)
    clean         \* clean[r]: no other thread touched a slot since r began persisting

wrapVars == <<text, max_length, words, wi, lines, line, wpc>>
pageVars == <<loop, y, page, drawn, lastY, paras, inPara, ppc>>
pipeVars == <<req, pc, loc, resp, trace, expired, uploads, blobs,
              summary_txt, summary_pdf, last_done, clean>>
vars == <<wrapVars, pageVars, pipeVars>>

-----------------------------------------------------------------------------
(* Bounds of the model *)

MaxTextLen == 5
MaxWidth == 4
MaxLines == 100
MaxParagraphs == 3
NumRuns == 2
MaxNameLen == 3

-----------------------------------------------------------------------------
(* Constants of the program *)

\* reportlab.lib.pagesizes.letter = (612, 792); height is letter[1]
PageHeight == 792
\* reportlab.lib.units.inch
Inch == 72
\* y -= 14
LineStep == 14
\* split_text(text, 90)
WrapWidth == 90

MarginTop == PageHeight - Inch

-----------------------------------------------------------------------------
(* Sequence helpers *)

RECURSIVE Flatten(_)
Flatten(ss) ==
    IF ss = <<>> THEN <<>> ELSE Head(ss) \o Flatten(Tail(ss))

Max(a, b) == IF a >= b THEN a ELSE b

RECURSIVE MaxLen(_)
MaxLen(ss) ==
    IF ss = <<>> THEN 0 ELSE Max(Len(Head(ss)), MaxLen(Tail(ss)))

SeqsUpTo(S, n) == UNION {[1..k -> S] : k \in 0..n}

-----------------------------------------------------------------------------
(* split_text *)

Whitespace == {" "}
Chars == {"a", "b", " "}

\* str.split(): the maximal runs of non-whitespace characters, in order
RECURSIVE SplitFrom(_, _, _)
SplitFrom(t, cur, acc) ==
    IF t = <<>>
    THEN IF cur = <<>> THEN acc ELSE Append(acc, cur)
    ELSE IF Head(t) \in Whitespace
         THEN SplitFrom(Tail(t), <<>>, IF cur = <<>> THEN acc ELSE Append(acc, cur))
         ELSE SplitFrom(Tail(t), Append(cur, Head(t)), acc)

Split(t) == SplitFrom(t, <<>>, <<>>)

\* a faulty variant of FitsLine: the width is never consulted
FitsLineAlways(ln, word, width) == TRUE

\* if len(line) + len(word) + 1 <= max_length
FitsLine(ln, word, width) == Len(ln) + Len(word) + 1 <= width

\* line += (" " if line else "") + word
Extend(ln, word) == ln \o (IF ln # <<>> THEN <<" ">> ELSE <<>>) \o word

\* one iteration of the for loop on the pair (lines, line)
WrapStep(st, word, width) ==
    IF FitsLine(st.line, word, width)
    THEN [lines |-> st.lines, line |-> Extend(st.line, word)]
    ELSE [lines |-> Append(st.lines, st.line), line |-> word]

RECURSIVE WrapLoop(_, _, _)
WrapLoop(ws, st, width) ==
    IF ws = <<>> THEN st ELSE WrapLoop(Tail(ws), WrapStep(st, Head(ws), width), width)

\* if line: lines.append(line)
Flush(st) == IF st.line # <<>> THEN Append(st.lines, st.line) ELSE st.lines

\* the whole function, as the pagination of the summary calls it
split_text(t, width) ==
    Flush(WrapLoop(Split(t), [lines |-> <<>>, line |-> <<>>], width))

-----------------------------------------------------------------------------
(* the pagination loops *)

\* a faulty variant of NeedsNewPage: the page break tests the page edge, not the margin
NeedsNewPageAtEdge(cursor) == cursor < 0

\* if y < inch
NeedsNewPage(cursor) == cursor < Inch

\* c.drawString(inch, y, line); y -= 14; if y < inch: c.showPage(); y = height - inch
\* on the cursor [y, page]; the line is drawn at cur.y on page cur.page
Advance(cur) ==
    IF NeedsNewPage(cur.y - LineStep)
    THEN [y |-> MarginTop, page |-> cur.page + 1]
    ELSE [y |-> cur.y - LineStep, page |-> cur.page]

\* the drawString calls of one loop over ls, starting at cursor cur
RECURSIVE DrawAll(_, _)
DrawAll(ls, cur) ==
    IF ls = <<>> THEN <<>>
    ELSE <<[page |-> cur.page, y |-> cur.y, line |-> Head(ls)]>>
         \o DrawAll(Tail(ls), Advance(cur))

-----------------------------------------------------------------------------
(* States in which a part of the program is not running *)

Runs == 1..NumRuns

WrapOff ==
    /\ text = <<>> /\ max_length = 0 /\ words = <<>> /\ wi = 0
    /\ lines = <<>> /\ line = <<>> /\ wpc = "off"

PageOff ==
    /\ loop = "off" /\ y = MarginTop /\ page = 1 /\ drawn = 0 /\ lastY = 0
    /\ paras = 0 /\ inPara = 0 /\ ppc = "off"

-----------------------------------------------------------------------------
(* split_text, statement by statement *)

\* words = text.split(); lines = []; line = ""
SplitTextEnter ==
    /\ wpc = "call"
    /\ words' = Split(text)
    /\ lines' = <<>>
    /\ line' = <<>>
    /\ wi' = 0
    /\ wpc' = "loop"
    /\ UNCHANGED <<text, max_length, pageVars, pipeVars>>

\* for word in words: one iteration
SplitTextIterate ==
    /\ wpc = "loop"
    /\ wi < Len(words)
    /\ LET st == WrapStep([lines |-> lines, line |-> line], words[wi + 1], max_length)
       IN  /\ lines' = st.lines
           /\ line' = st.line
    /\ wi' = wi + 1
    /\ UNCHANGED <<text, max_length, words, wpc, pageVars, pipeVars>>

\* if line: lines.append(line); return lines
SplitTextReturn ==
    /\ wpc = "loop"
    /\ wi = Len(words)
    /\ lines' = Flush([lines |-> lines, line |-> line])
    /\ wpc' = "returned"
    /\ UNCHANGED <<text, max_length, words, wi, line, pageVars, pipeVars>>

-----------------------------------------------------------------------------
(* the pagination loops, statement by statement.  The lines come from       *)
(* split_text; how many each paragraph has is the document's choice.        *)

\* c.drawString(inch, y, line); y -= 14; if y < inch: c.showPage(); y = height - inch
DrawLine ==
    /\ drawn < MaxLines
    /\ lastY' = y
    /\ drawn' = drawn + 1
    /\ LET cur == Advance([y |-> y, page |-> page])
       IN  /\ y' = cur.y
           /\ page' = cur.page

\* convert_docx_to_pdf: for line in lines (a line of the current paragraph)
DocxDrawLine ==
    /\ loop = "docx" /\ ppc = "loop"
    /\ paras < MaxParagraphs
    /\ DrawLine
    /\ inPara' = inPara + 1
    /\ UNCHANGED <<loop, paras, ppc, wrapVars, pipeVars>>

\* convert_docx_to_pdf: for para in doc.paragraphs (the next paragraph; a
\* paragraph whose stripped text is empty draws nothing)
DocxNextParagraph ==
    /\ loop = "docx" /\ ppc = "loop"
    /\ paras < MaxParagraphs
    /\ paras' = paras + 1
    /\ inPara' = 0
    /\ UNCHANGED <<loop, y, page, drawn, lastY, ppc, wrapVars, pipeVars>>

\* convert_docx_to_pdf: c.save()
DocxSave ==
    /\ loop = "docx" /\ ppc = "loop"
    /\ ppc' = "saved"
    /\ UNCHANGED <<loop, y, page, drawn, lastY, paras, inPara, wrapVars, pipeVars>>

\* upload_file: for line in split_text(summary_text, 90)
SummaryDrawLine ==
    /\ loop = "summary" /\ ppc = "loop"
    /\ DrawLine
    /\ inPara' = inPara + 1
    /\ UNCHANGED <<loop, paras, ppc, wrapVars, pipeVars>>

\* upload_file: c.save()
SummarySave ==
    /\ loop = "summary" /\ ppc = "loop"
    /\ ppc' = "saved"
    /\ UNCHANGED <<loop, y, page, drawn, lastY, paras, inPara, wrapVars, pipeVars>>

-----------------------------------------------------------------------------
(* Requests *)

\* os.getenv("APP_USERNAME"), os.getenv("APP_PASSWORD"): the configured values
APP_USERNAME == "admin"
APP_PASSWORD == "secret"

Usernames == {"admin", "eve"}
Passwords == {"secret", "guess"}

\* request.authorization: None, or the Basic credentials of the request
NoAuth == [present |-> FALSE, username |-> "", password |-> ""]
BasicAuth(u, p) == [present |-> TRUE, username |-> u, password |-> p]
Auths == {NoAuth} \cup {BasicAuth(u, p) : u \in Usernames, p \in Passwords}
GoodAuth == BasicAuth(APP_USERNAME, APP_PASSWORD)

\* A filename is a sequence of characters.  Each element stands for one
\* character class or one fixed run of ASCII letters:
\*   "a" a letter, "dot" '.', "us" '_', "uni" a non-ASCII character without an
\*   ASCII decomposition, "pdf" "PDF" "doc" "docx" "txt" those letters.
NameTokens == {"a", "dot", "us", "uni", "pdf", "PDF", "doc", "docx", "txt"}
Names == SeqsUpTo(NameTokens, MaxNameLen)

Upload(auth, hasFile, name, body) ==
    [route |-> "upload", auth |-> auth, hasFile |-> hasFile, filename |-> name,
     target |-> "none", body |-> body]
DownloadOf(auth, target) ==
    [route |-> "download", auth |-> auth, hasFile |-> FALSE, filename |-> <<>>,
     target |-> target, body |-> 0]
IndexOf(auth) ==
    [route |-> "index", auth |-> auth, hasFile |-> FALSE, filename |-> <<>>,
     target |-> "none", body |-> 0]
NoRequest ==
    [route |-> "none", auth |-> NoAuth, hasFile |-> FALSE, filename |-> <<>>,
     target |-> "none", body |-> 0]

-----------------------------------------------------------------------------
(* Pure helpers of the handlers *)

\* a faulty variant of check_auth: either value matching is enough
check_auth_either(username, password) ==
    username = APP_USERNAME \/ password = APP_PASSWORD

\* return username == APP_USERNAME and password == APP_PASSWORD
check_auth(username, password) ==
    username = APP_USERNAME /\ password = APP_PASSWORD

\* not (not auth or not check_auth(auth.username, auth.password))
Authorized(auth) == auth.present /\ check_auth(auth.username, auth.password)

StripSet == {"dot", "us"}

RECURSIVE LStrip(_, _)
LStrip(s, set) ==
    IF s # <<>> /\ Head(s) \in set THEN LStrip(Tail(s), set) ELSE s

RECURSIVE RStrip(_, _)
RStrip(s, set) ==
    IF s # <<>> /\ s[Len(s)] \in set THEN RStrip(SubSeq(s, 1, Len(s) - 1), set) ELSE s

\* werkzeug.utils.secure_filename, as called at src/app.py:127, on the
\* characters of NameTokens: NFKD-normalise and encode to ASCII ignoring what
\* does not encode (drops "uni"); keep [A-Za-z0-9_.-]; strip("._").  The
\* names of NameTokens hold no whitespace and no path separator, so the steps
\* that replace those change nothing here.
secure_filename(name) ==
    LET ascii == SelectSeq(name, LAMBDA t : t # "uni")
    IN  RStrip(LStrip(ascii, StripSet), StripSet)

\* p.rfind(".")
LastDot(name) ==
    IF \E i \in 1..Len(name) : name[i] = "dot"
    THEN CHOOSE i \in 1..Len(name) :
            /\ name[i] = "dot"
            /\ \A j \in (i + 1)..Len(name) : name[j] # "dot"
    ELSE 0

\* os.path.splitext: the extension starts at the last dot, unless only dots
\* precede it (the names hold no path separator)
splitext(name) ==
    LET d == LastDot(name)
    IN  IF d > 0 /\ \E i \in 1..(d - 1) : name[i] # "dot"
        THEN <<SubSeq(name, 1, d - 1), SubSeq(name, d, Len(name))>>
        ELSE <<name, <<>>>>

\* str.lower()
lower(s) == [i \in 1..Len(s) |-> IF s[i] = "PDF" THEN "pdf" ELSE s[i]]

\* [".pdf", ".doc", ".docx"]
AllowedExt == {<<"dot", "pdf">>, <<"dot", "doc">>, <<"dot", "docx">>}

\* uuid.uuid4() as drawn by thread r: a value no other call returns (a
\* handler calls it once)
UuidValues == <<"u1", "u2", "u3", "u4", "u5">>
uuid4(r) == UuidValues[r]

\* content of a document file: the document it holds, and whether it is the
\* PDF rendering that convert_docx_to_pdf made of it
Raw(d) == [doc |-> d, conv |-> FALSE]
Converted(c) == [doc |-> c.doc, conv |-> TRUE]

\* extracted_text: every line of every page of the analysed blob, each
\* followed by "\n": the text of the document the blob holds
ExtractText(c) == c.doc

\* chat_response.choices[0].message.content for the prompt built from the
\* text of document d: a text of d words, padded with whitespace
Letter(d) == <<"a", "b", "c", "d", "e">>[d]
RECURSIVE Repeat(_, _)
Repeat(w, n) ==
    IF n = 0 THEN <<>> ELSE IF n = 1 THEN <<w>> ELSE <<w, " ">> \o Repeat(w, n - 1)
Reply(d) == <<" ">> \o Repeat(Letter(d), d) \o <<" ">>

\* str.strip()
Strip(s) == RStrip(LStrip(s, Whitespace), Whitespace)

\* what the canvas of the summary holds at c.save(): the drawString calls
Render(summary) ==
    DrawAll(split_text(summary, WrapWidth), [y |-> MarginTop, page |-> 1])

\* a write of data at offset 0 of an open file: bytes beyond it stay
Overwrite(old, data) ==
    IF Len(old) > Len(data) THEN data \o SubSeq(old, Len(data) + 1, Len(old)) ELSE data

NoLocals ==
    [filename |-> <<>>, file_ext |-> <<>>, temp_path |-> <<>>, upload_name |-> <<>>,
     file_path_to_upload |-> <<>>, extracted_text |-> 0, summary_text |-> <<>>]

NoResponse == [status |-> 0, kind |-> "none", body |-> <<>>]
\* authenticate()
Challenge == [status |-> 401, kind |-> "challenge", body |-> <<>>]
\* jsonify({"error": ...}), code
JsonError(code) == [status |-> code, kind |-> "error", body |-> <<>>]
\* jsonify({"summary": summary_text})
JsonSummary(s) == [status |-> 200, kind |-> "summary", body |-> s]
\* an exception that leaves the view function: Flask's own 500 page
Uncaught == [status |-> 500, kind |-> "uncaught", body |-> <<>>]

Event(stage, ok) == [stage |-> stage, ok |-> ok]

PipeOff ==
    /\ req = [r \in Runs |-> NoRequest]
    /\ pc = [r \in Runs |-> "absent"]
    /\ loc = [r \in Runs |-> NoLocals]
    /\ resp = [r \in Runs |-> NoResponse]
    /\ trace = [r \in Runs |-> <<>>]
    /\ expired = [r \in Runs |-> FALSE]
    /\ uploads = <<>>
    /\ blobs = <<>>
    /\ summary_txt = <<>>
    /\ summary_pdf = <<>>
    /\ last_done = 0
    /\ clean = [r \in Runs |-> FALSE]

-----------------------------------------------------------------------------
(* The handlers, one action per step that touches shared state *)

\* the view function of thread r returns response
Return(r, response) ==
    /\ resp' = [resp EXCEPT ![r] = response]
    /\ pc' = [pc EXCEPT ![r] = "done"]
    /\ last_done' = r

Goto(r, label) ==
    /\ pc' = [pc EXCEPT ![r] = label]
    /\ UNCHANGED <<resp, last_done>>

Log(r, stage, ok) == trace' = [trace EXCEPT ![r] = Append(@, Event(stage, ok))]

\* a slot operation of thread r: every other thread's persistence is disturbed
Touch(r, begins) ==
    clean' = [q \in Runs |-> IF q = r THEN (begins \/ clean[r]) ELSE FALSE]

\* requires_auth.decorated
Authenticate(r) ==
    /\ pc[r] = "auth"
    /\ IF ~Authorized(req[r].auth)
       THEN Return(r, Challenge)
       ELSE Goto(r, CASE req[r].route = "upload" -> "validate"
                      [] req[r].route = "download" -> "download"
                      [] OTHER -> "index")
    /\ UNCHANGED <<req, loc, trace, expired, uploads, blobs, summary_txt,
                   summary_pdf, clean, wrapVars, pageVars>>

\* index: render_template("index.html")
IndexPage(r) ==
    /\ pc[r] = "index"
    /\ Log(r, "render", TRUE)
    /\ Return(r, [status |-> 200, kind |-> "page", body |-> <<>>])
    /\ UNCHANGED <<req, loc, expired, uploads, blobs, summary_txt, summary_pdf, clean, wrapVars, pageVars>>

\* download_summary: send_from_directory(SUMMARY_FOLDER, filename); the
\* response carries what the named slot holds
DownloadSummary(r) ==
    /\ pc[r] = "download"
    /\ Log(r, "read", TRUE)
    /\ Return(r, [status |-> 200, kind |-> "file",
                  body |-> IF req[r].target = "txt" THEN summary_txt ELSE summary_pdf])
    /\ UNCHANGED <<req, loc, expired, uploads, blobs, summary_txt, summary_pdf, clean, wrapVars, pageVars>>

\* upload_file, lines 123-133: the checks of the file and of its extension
Validate(r) ==
    /\ pc[r] = "validate"
    /\ LET filename == secure_filename(req[r].filename)
           file_ext == lower(splitext(filename)[2])
       IN  IF ~req[r].hasFile \/ req[r].filename = <<>>
           THEN /\ Log(r, "validate", FALSE)
                /\ Return(r, JsonError(400))
                /\ UNCHANGED loc
           ELSE IF file_ext \notin AllowedExt
           THEN /\ Log(r, "validate", FALSE)
                /\ Return(r, JsonError(400))
                /\ UNCHANGED loc
           ELSE /\ Log(r, "validate", TRUE)
                /\ Goto(r, "save")
                /\ loc' = [loc EXCEPT ![r] = [@ EXCEPT !.filename = filename,
                                                       !.file_ext = file_ext,
                                                       !.temp_path = filename]]
    /\ UNCHANGED <<req, expired, uploads, blobs, summary_txt, summary_pdf, clean, wrapVars, pageVars>>

\* file.save(temp_path)
SaveTemp(r) ==
    /\ pc[r] = "save"
    /\ uploads' = (loc[r].temp_path :> Raw(req[r].body)) @@ uploads
    /\ Log(r, "save", TRUE)
    /\ Goto(r, "canon")
    /\ UNCHANGED <<req, loc, expired, blobs, summary_txt, summary_pdf, clean, wrapVars, pageVars>>

\* upload_file, lines 136-144.  For a .docx convert_docx_to_pdf reads
\* temp_path and writes the rendering to a path named by a fresh uuid; an
\* exception it raises is outside the try statement.
Canonicalize(r) ==
    /\ pc[r] = "canon"
    /\ IF loc[r].file_ext = <<"dot", "docx">>
       THEN LET pdf_filename == <<uuid4(r), "dot", "pdf">>
            IN  \E ok \in BOOLEAN :
                  /\ Log(r, "convert", ok)
                  /\ IF ok
                     THEN /\ uploads' = (pdf_filename :> Converted(uploads[loc[r].temp_path]))
                                            @@ uploads
                          /\ loc' = [loc EXCEPT ![r] =
                                        [@ EXCEPT !.upload_name = pdf_filename,
                                                  !.file_path_to_upload = pdf_filename]]
                          /\ Goto(r, "store")
                     ELSE /\ Return(r, Uncaught)
                          /\ UNCHANGED <<uploads, loc>>
       ELSE /\ loc' = [loc EXCEPT ![r] =
                          [@ EXCEPT !.upload_name = <<uuid4(r)>> \o loc[r].file_ext,
                                    !.file_path_to_upload = loc[r].temp_path]]
            /\ Goto(r, "store")
            /\ UNCHANGED <<uploads, trace>>
    /\ UNCHANGED <<req, expired, blobs, summary_txt, summary_pdf, clean,
                   wrapVars, pageVars>>

\* upload_to_blob(file_path_to_upload, upload_name): the blob gets what the
\* file holds now; the SAS locator it returns expires 10 minutes later
Store(r) ==
    /\ pc[r] = "store"
    /\ \E ok \in BOOLEAN :
         /\ Log(r, "store", ok)
         /\ IF ok
            THEN /\ blobs' = (loc[r].upload_name :> uploads[loc[r].file_path_to_upload])
                                @@ blobs
                 /\ Goto(r, "extract")
            ELSE /\ Return(r, JsonError(500))
                 /\ UNCHANGED blobs
    /\ UNCHANGED <<req, loc, expired, uploads, summary_txt, summary_pdf,
                   clean, wrapVars, pageVars>>

\* the expiry of the locator passes before the analysis reads the blob
Expire(r) ==
    /\ pc[r] = "extract"
    /\ ~expired[r]
    /\ expired' = [expired EXCEPT ![r] = TRUE]
    /\ UNCHANGED <<req, pc, loc, resp, trace, uploads, blobs, summary_txt,
                   summary_pdf, last_done, clean, wrapVars, pageVars>>

\* a faulty variant of Extract: a failed analysis is swallowed and the run goes on
ExtractSwallow(r) ==
    /\ pc[r] = "extract"
    /\ \E ok \in BOOLEAN :
         /\ ok => ~expired[r]
         /\ Log(r, "extract", ok)
         /\ loc' = [loc EXCEPT ![r] =
                       [@ EXCEPT !.extracted_text = ExtractText(blobs[loc[r].upload_name])]]
         /\ Goto(r, "summarize")
    /\ UNCHANGED <<req, expired, uploads, blobs, summary_txt, summary_pdf,
                   clean, wrapVars, pageVars>>

\* begin_analyze_document_from_url(...).result() and the loops over its pages
\* and lines; the service cannot read through an expired locator
Extract(r) ==
    /\ pc[r] = "extract"
    /\ \E ok \in BOOLEAN :
         /\ ok => ~expired[r]
         /\ Log(r, "extract", ok)
         /\ IF ok
            THEN /\ loc' = [loc EXCEPT ![r] =
                       [@ EXCEPT !.extracted_text = ExtractText(blobs[loc[r].upload_name])]]
                 /\ Goto(r, "summarize")
            ELSE /\ Return(r, JsonError(500))
                 /\ UNCHANGED loc
    /\ UNCHANGED <<req, expired, uploads, blobs, summary_txt, summary_pdf,
                   clean, wrapVars, pageVars>>

\* openai_client.chat.completions.create(...) and .content.strip()
Summarize(r) ==
    /\ pc[r] = "summarize"
    /\ \E ok \in BOOLEAN :
         /\ Log(r, "summarize", ok)
         /\ IF ok
            THEN /\ loc' = [loc EXCEPT ![r] =
                       [@ EXCEPT !.summary_text = Strip(Reply(loc[r].extracted_text))]]
                 /\ Goto(r, "txt_open")
            ELSE /\ Return(r, JsonError(500))
                 /\ UNCHANGED loc
    /\ UNCHANGED <<req, expired, uploads, blobs, summary_txt, summary_pdf,
                   clean, wrapVars, pageVars>>

\* a faulty variant of TxtOpen: a failure to persist is ignored and the summary is
\* returned all the same
TxtOpenFailureIgnored(r) ==
    /\ pc[r] = "txt_open"
    /\ \E ok \in BOOLEAN :
         /\ Log(r, "txt_open", ok)
         /\ IF ok
            THEN /\ summary_txt' = <<>>
                 /\ Touch(r, TRUE)
                 /\ Goto(r, "txt_write")
            ELSE /\ Return(r, JsonSummary(loc[r].summary_text))
                 /\ UNCHANGED <<summary_txt, clean>>
    /\ UNCHANGED <<req, loc, expired, uploads, blobs, summary_pdf,
                   wrapVars, pageVars>>

\* open(txt_path, "w"): truncates summary.txt
TxtOpen(r) ==
    /\ pc[r] = "txt_open"
    /\ \E ok \in BOOLEAN :
         /\ Log(r, "txt_open", ok)
         /\ IF ok
            THEN /\ summary_txt' = <<>>
                 /\ Touch(r, TRUE)
                 /\ Goto(r, "txt_write")
            ELSE /\ Return(r, JsonError(500))
                 /\ UNCHANGED <<summary_txt, clean>>
    /\ UNCHANGED <<req, loc, expired, uploads, blobs, summary_pdf,
                   wrapVars, pageVars>>

\* f.write(summary_text) and the close of the with block.  A failure of the
\* with statement is modelled where it opens the file.
TxtWrite(r) ==
    /\ pc[r] = "txt_write"
    /\ Log(r, "txt_write", TRUE)
    /\ summary_txt' = Overwrite(summary_txt, loc[r].summary_text)
    /\ Touch(r, FALSE)
    /\ Goto(r, "pdf_open")
    /\ UNCHANGED <<req, loc, expired, uploads, blobs, summary_pdf,
                   wrapVars, pageVars>>

\* the pagination loop on the canvas, then c.save() opening summary.pdf
PdfOpen(r) ==
    /\ pc[r] = "pdf_open"
    /\ \E ok \in BOOLEAN :
         /\ Log(r, "pdf_open", ok)
         /\ IF ok
            THEN /\ summary_pdf' = <<>>
                 /\ Touch(r, FALSE)
                 /\ Goto(r, "pdf_write")
            ELSE /\ Return(r, JsonError(500))
                 /\ UNCHANGED <<summary_pdf, clean>>
    /\ UNCHANGED <<req, loc, expired, uploads, blobs, summary_txt,
                   wrapVars, pageVars>>

\* a faulty variant of PdfWrite: the rendering is never written to the slot
PdfWriteSkipped(r) ==
    /\ pc[r] = "pdf_write"
    /\ Log(r, "pdf_write", TRUE)
    /\ Touch(r, FALSE)
    /\ Return(r, JsonSummary(loc[r].summary_text))
    /\ UNCHANGED <<req, loc, expired, uploads, blobs, summary_txt, summary_pdf, wrapVars, pageVars>>

\* c.save() writing the document, then return jsonify({"summary": summary_text}).
\* A failure of c.save() is modelled where it opens the file.
PdfWrite(r) ==
    /\ pc[r] = "pdf_write"
    /\ Log(r, "pdf_write", TRUE)
    /\ summary_pdf' = Overwrite(summary_pdf, Render(loc[r].summary_text))
    /\ Touch(r, FALSE)
    /\ Return(r, JsonSummary(loc[r].summary_text))
    /\ UNCHANGED <<req, loc, expired, uploads, blobs, summary_txt,
                   wrapVars, pageVars>>

-----------------------------------------------------------------------------
(* Specifications *)

\* one call of split_text
InitWrap ==
    /\ text \in SeqsUpTo(Chars, MaxTextLen)
    /\ max_length \in 1..MaxWidth
    /\ words = <<>> /\ wi = 0 /\ lines = <<>> /\ line = <<>>
    /\ wpc = "call"
    /\ PageOff
    /\ PipeOff

NextWrap == SplitTextEnter \/ SplitTextIterate \/ SplitTextReturn

SpecWrap == InitWrap /\ [][NextWrap]_vars

\* one run of a pagination loop
InitPage ==
    /\ loop \in {"docx", "summary"}
    /\ y = MarginTop /\ page = 1 /\ drawn = 0 /\ lastY = 0
    /\ paras = 0 /\ inPara = 0
    /\ ppc = "loop"
    /\ WrapOff
    /\ PipeOff

NextPage ==
    \/ DocxDrawLine \/ DocxNextParagraph \/ DocxSave
    \/ SummaryDrawLine \/ SummarySave

SpecPage == InitPage /\ [][NextPage]_vars

\* the requests the concurrent threads of Spec serve
SpecRequests(r) ==
    {Upload(GoodAuth, TRUE, <<"a", "dot", "pdf">>, r),
     Upload(GoodAuth, TRUE, <<"a", "dot", "docx">>, r),
     Upload(GoodAuth, TRUE, <<"a", "dot", "txt">>, r),
     Upload(NoAuth, TRUE, <<"a", "dot", "pdf">>, r),
     Upload(GoodAuth, FALSE, <<>>, r),
     DownloadOf(GoodAuth, "txt"),
     IndexOf(GoodAuth)}

\* every request one thread can get
GateRequests(r) ==
    {Upload(a, f, n, r) : a \in Auths, f \in BOOLEAN, n \in Names}
    \cup {DownloadOf(a, t) : a \in Auths, t \in {"txt", "pdf"}}
    \cup {IndexOf(a) : a \in Auths}

InitRuns(requests) ==
    /\ req = requests
    /\ pc = [r \in Runs |-> IF requests[r].route = "none" THEN "absent" ELSE "auth"]
    /\ loc = [r \in Runs |-> NoLocals]
    /\ resp = [r \in Runs |-> NoResponse]
    /\ trace = [r \in Runs |-> <<>>]
    /\ expired = [r \in Runs |-> FALSE]
    /\ uploads = <<>>
    /\ blobs = <<>>
    /\ summary_txt = <<>>
    /\ summary_pdf = <<>>
    /\ last_done = 0
    /\ clean = [r \in Runs |-> FALSE]
    /\ WrapOff
    /\ PageOff

\* NumRuns threads, each serving one request
Init ==
    \E requests \in [Runs -> UNION {SpecRequests(r) : r \in Runs}] :
        /\ \A r \in Runs : requests[r] \in SpecRequests(r)
        /\ InitRuns(requests)

\* one thread, serving any request
InitGate ==
    \E q \in GateRequests(1) :
        InitRuns([r \in Runs |-> IF r = 1 THEN q ELSE NoRequest])

Next ==
    \E r \in Runs :
        \/ Authenticate(r)
        \/ IndexPage(r)
        \/ DownloadSummary(r)
        \/ Validate(r)
        \/ SaveTemp(r)
        \/ Canonicalize(r)
        \/ Store(r)
        \/ Expire(r)
        \/ Extract(r)
        \/ Summarize(r)
        \/ TxtOpen(r)
        \/ TxtWrite(r)
        \/ PdfOpen(r)
        \/ PdfWrite(r)

Spec == Init /\ [][Next]_vars

SpecGate == InitGate /\ [][Next]_vars

-----------------------------------------------------------------------------
(* What a thread's trace says *)

Invoked(r, stage) == \E i \in 1..Len(trace[r]) : trace[r][i].stage = stage
Succeeded(r, stage) == \E i \in 1..Len(trace[r]) : trace[r][i] = Event(stage, TRUE)
Failed(r, stage) == \E i \in 1..Len(trace[r]) : trace[r][i] = Event(stage, FALSE)

\* the stages that may directly precede a stage of the pipeline
Before(stage) ==
    CASE stage = "store" -> {"save", "convert"}
      [] stage = "extract" -> {"store"}
      [] stage = "summarize" -> {"extract"}
      [] stage = "txt_open" -> {"summarize"}
      [] stage = "txt_write" -> {"txt_open"}
      [] stage = "pdf_open" -> {"txt_write"}
      [] stage = "pdf_write" -> {"pdf_open"}
      [] OTHER -> {}

PipelineStages ==
    {"store", "extract", "summarize", "txt_open", "txt_write", "pdf_open", "pdf_write"}

-----------------------------------------------------------------------------
(* C1 *)

\* C1: an upload run that passed validation and in which the conversion, the
\* store upload, the extraction or the summarization raised ends with the
\* JSON error response {error: message}, status 500.
C1_StageFailuresAreCaught ==
    \A r \in Runs :
        (/\ pc[r] = "done"
         /\ Succeeded(r, "validate")
         /\ \E st \in {"convert", "store", "extract", "summarize"} : Failed(r, st))
        => resp[r] = JsonError(500)

-----------------------------------------------------------------------------
(* C2 *)

\* C2 as claimed: once the summarization call of a run has succeeded, the
\* run's response is {summary: <summary>}, whatever happens to the writes of
\* the two output slots.
C2_SummaryWhateverPersistenceDoes ==
    \A r \in Runs :
        (pc[r] = "done" /\ Succeeded(r, "summarize"))
        => resp[r] = JsonSummary(loc[r].summary_text)

\* C2 as amended: once the summarization call of a run has succeeded, the
\* run's response is {summary: <summary>} exactly when both output slots were
\* written; if the write of either slot fails the response is {error}, 500.
C2_SummaryOnlyIfPersisted ==
    \A r \in Runs :
        (pc[r] = "done" /\ Succeeded(r, "summarize"))
        => IF Succeeded(r, "txt_write") /\ Succeeded(r, "pdf_write")
           THEN resp[r] = JsonSummary(loc[r].summary_text)
           ELSE /\ resp[r] = JsonError(500)
                /\ Failed(r, "txt_open") \/ Failed(r, "pdf_open")

\* a run whose summarization succeeded, whose summary.txt was written and
\* whose summary.pdf could not be opened: it answers 500
C2_Witness ==
    \E r \in Runs :
        /\ pc[r] = "done"
        /\ Succeeded(r, "summarize")
        /\ Succeeded(r, "txt_write")
        /\ Failed(r, "pdf_open")
        /\ resp[r] = JsonError(500)

-----------------------------------------------------------------------------
(* C3 *)

\* C3: an upload with a missing file, an empty filename or an extension
\* (lower-cased) outside {.pdf, .doc, .docx} is answered 400 with nothing
\* saved, converted, stored, extracted or summarized; every upload whose
\* filename has an allowed extension passes validation.
C3_ExtensionDecidesValidation ==
    \A r \in Runs :
        (req[r].route = "upload" /\ Invoked(r, "validate"))
        => LET rejected == \/ ~req[r].hasFile
                           \/ req[r].filename = <<>>
                           \/ lower(splitext(req[r].filename)[2]) \notin AllowedExt
           IN  IF rejected
               THEN /\ resp[r] = JsonError(400)
                    /\ trace[r] = <<Event("validate", FALSE)>>
               ELSE Succeeded(r, "validate")

-----------------------------------------------------------------------------
(* C4 *)

\* C4 as claimed: once all of the concurrent upload runs have finished
\* successfully, summary.txt and summary.pdf both hold the summary of the run
\* that finished last.
C4_SlotsHoldLastFinisher ==
    (\A r \in Runs : pc[r] = "done" /\ resp[r].kind = "summary")
    => /\ summary_txt = resp[last_done].body
       /\ summary_pdf = Render(resp[last_done].body)

\* C4 as amended: the two slots hold the summary of a successful run that has
\* finished provided no other run opened or wrote a slot after that run
\* began persisting, that is, provided its persistence was not overlapped or
\* followed by another run's.
C4_UndisturbedRunOwnsSlots ==
    \A r \in Runs :
        (pc[r] = "done" /\ resp[r].kind = "summary" /\ clean[r])
        => /\ summary_txt = resp[r].body
           /\ summary_pdf = Render(resp[r].body)

\* two successful runs with different summaries, the second persisting after
\* the first was done with the slots
C4_Witness ==
    \E r, q \in Runs :
        /\ r # q
        /\ pc[r] = "done" /\ resp[r].kind = "summary" /\ clean[r]
        /\ pc[q] = "done" /\ resp[q].kind = "summary"
        /\ resp[q].body # resp[r].body
        /\ last_done = r

-----------------------------------------------------------------------------
(* C5 *)

\* C5: the blob a run stores under its unique name holds the document that
\* same run received (or its conversion), and no two runs store under the
\* same name.
C5_StoredDocumentIsTheRunsOwn ==
    \A r \in Runs :
        Succeeded(r, "store")
        => /\ blobs[loc[r].upload_name].doc = req[r].body
           /\ \A q \in Runs \ {r} :
                 Succeeded(q, "store") => loc[q].upload_name # loc[r].upload_name

-----------------------------------------------------------------------------
(* C6 *)

\* C6: the stages of a run are invoked in the order store, extract,
\* summarize, persist, each only after its predecessor succeeded, and none
\* after a failure; when the extraction fails (as it does when the locator has
\* expired) the summarization is not called, no slot is written by the run
\* and its response is an error.
C6_NoStageAfterFailure ==
    \A r \in Runs :
        LET t == trace[r]
            n == Len(t)
        IN  /\ \A i \in 1..n :
                  /\ ~t[i].ok => i = n
                  /\ t[i].stage \in PipelineStages
                     => /\ i > 1
                        /\ t[i - 1].ok
                        /\ t[i - 1].stage \in Before(t[i].stage)
            /\ (n > 0 /\ t[n].stage = "extract")
               => /\ expired[r] => ~t[n].ok
                  /\ ~t[n].ok
                     => /\ loc[r].summary_text = <<>>
                        /\ pc[r] = "done"
                        /\ resp[r].kind = "error" /\ resp[r].status = 500

\* a run whose locator expired before the extraction, which then failed
C6_Witness ==
    \E r \in Runs :
        /\ expired[r]
        /\ Failed(r, "extract")
        /\ pc[r] = "done"
        /\ resp[r] = JsonError(500)

-----------------------------------------------------------------------------
(* C7 *)

\* C7: the lines split_text returns are each no longer than the larger of
\* the width and the longest word, and their words, read in order, are
\* exactly the words of the text.
C7_WrapKeepsWordsWithinWidth ==
    wpc = "returned"
    => /\ \A i \in 1..Len(lines) :
             Len(lines[i]) <= Max(max_length, MaxLen(Split(text)))
       /\ Flatten([i \in 1..Len(lines) |-> Split(lines[i])]) = Split(text)

\* a call that returned several lines, one with two words, one as long as
\* the width
C7_Witness ==
    /\ wpc = "returned"
    /\ Len(lines) >= 2
    /\ \E i \in 1..Len(lines) : Len(Split(lines[i])) >= 2
    /\ \E i \in 1..Len(lines) : Len(lines[i]) = max_length

-----------------------------------------------------------------------------
(* C8 *)

\* the number of lines a page takes
LinesPerPage == (MarginTop - Inch) \div LineStep + 1

\* C8: in both loops every line is drawn at a height within
\* [inch, height - inch]; the height of a line depends only on how many lines
\* were drawn before it, whatever the paragraphs they belong to: the cursor
\* starts at height - inch, steps down by 14 and returns to height - inch on a
\* new page, and a paragraph boundary does not reset it.
C8_LinesWithinMargins ==
    /\ Inch <= y /\ y <= MarginTop
    /\ drawn > 0
       => /\ Inch <= lastY /\ lastY <= MarginTop
          /\ lastY = MarginTop - LineStep * ((drawn - 1) % LinesPerPage)
          /\ page = drawn \div LinesPerPage + 1

\* the docx loop drew the first line of page 2 in the middle of its second
\* paragraph
C8_Witness ==
    /\ loop = "docx"
    /\ page = 2
    /\ lastY = MarginTop
    /\ paras = 1
    /\ inPara >= 2
    /\ inPara < drawn

-----------------------------------------------------------------------------
(* C9 *)

\* C9: a request to /upload, /download/<filename> or / without Basic
\* credentials, or with credentials that do not match both configured values,
\* is answered 401 with the challenge, and no stage runs for it: nothing is
\* validated, saved, stored, extracted, summarized, written or read.
C9_UnauthorizedDoesNothing ==
    \A r \in Runs :
        (/\ req[r].route \in {"upload", "download", "index"}
         /\ ~(/\ req[r].auth.present
              /\ req[r].auth.username = APP_USERNAME
              /\ req[r].auth.password = APP_PASSWORD))
        => /\ pc[r] \in {"auth", "done"}
           /\ pc[r] = "done" => resp[r] = Challenge
           /\ trace[r] = <<>>
           /\ loc[r] = NoLocals
           /\ (\A q \in Runs \ {r} : pc[q] = "absent")
              => /\ uploads = <<>> /\ blobs = <<>>
                 /\ summary_txt = <<>> /\ summary_pdf = <<>>

\* an upload with the right username and a wrong password, answered 401
C9_Witness ==
    \E r \in Runs :
        /\ req[r] = Upload(BasicAuth(APP_USERNAME, "guess"), TRUE, <<"a", "dot", "pdf">>, r)
        /\ pc[r] = "done"
        /\ resp[r].status = 401

-----------------------------------------------------------------------------
(* C10 *)

\* the rule as C10 states it: the word joins the buffer exactly when the
\* buffer it would make is no longer than the width
ClaimedStep(st, word, width) ==
    IF Len(Extend(st.line, word)) <= width
    THEN [lines |-> st.lines, line |-> Extend(st.line, word)]
    ELSE [lines |-> Append(st.lines, st.line), line |-> word]

RECURSIVE ClaimedLoop(_, _, _)
ClaimedLoop(ws, st, width) ==
    IF ws = <<>> THEN st ELSE ClaimedLoop(Tail(ws), ClaimedStep(st, Head(ws), width), width)

\* C10: split_text returns what the greedy rule gives (a word joins the
\* buffer exactly when the resulting buffer does not exceed the width, so a
\* word as long as the width goes on an empty buffer without closing a line),
\* and no returned line is empty.
C10_GreedyRuleAndNoEmptyLine ==
    wpc = "returned"
    => /\ lines = Flush(ClaimedLoop(Split(text), [lines |-> <<>>, line |-> <<>>],
                                    max_length))
       /\ \A i \in 1..Len(lines) : lines[i] # <<>>

====
